---- MODULE Spec2Model ----
(***************************************************************************)
(* State-machine model of qonsole::QonsoleWidget                           *)
(* (src/include/qonsole/qonsole.hpp): grid size, selection, text           *)
(* extraction and the key / mouse handlers, as they run on the UI thread,   *)
(* and of qonsole::QonsoleReader, whose run() reads the source on a thread *)
(* of its own and hands each chunk to the widget through a Qt signal.      *)
(*                                                                         *)
(* C++ `int` and `uint` are 32 bits wide.  An int is a TLA+ integer in     *)
(* IntMin..IntMax.  A uint u is the record [hi, lo] with                   *)
(* u = hi * 2^31 + lo, hi \in 0..1, lo \in 0..IntMax, so that every        *)
(* 32-bit value is representable and the int <-> uint conversions are      *)
(* the two's-complement ones.                                              *)
(***************************************************************************)
EXTENDS Integers, Sequences, FiniteSets, TLC

\* ------------------------------------------------------------------ bounds
\* largest column / line count passed to set_vt_size besides the edge values
MaxDim == 2
\* largest widget width / height (pixels) a resize event reports
MaxPixel == 4
\* mouse positions: x in -MouseLeft..MouseRight, y in -MouseUp..MouseDown
MouseLeft == 1
MouseRight == 5
MouseUp == 2
MouseDown == 5
\* cells (col, line) with col, line \in 0..MaxCell are queried by is_selected
MaxCell == 3
\* a screen dump has at most MaxDumpRows rows of at most MaxRowLen characters
MaxDumpRows == 3
MaxRowLen == 6
\* a source delivers at most MaxChunks chunks of data to its reader
MaxChunks == 2
\* set_reader is called at most MaxConnects times on a widget
MaxConnects == 2
\* the engine's cursor after a feed is at column / line 0 or MaxCursor
MaxCursor == 1
\* a cell's colour codes (tsm_screen_attr fccode / bccode) are
\* -1..MaxColourCode
MaxColourCode == 17

\* ------------------------------------------------- 32-bit integer helpers
IntMax == (2^30 - 1) + 2^30
IntMin == (-IntMax) - 1

\* int -> unsigned int (modulo 2^32)
IntToUint(i) ==
    IF i >= 0 THEN [hi |-> 0, lo |-> i]
              ELSE [hi |-> 1, lo |-> (i + IntMax) + 1]

\* unsigned int -> int (modulo 2^32, as every supported compiler does)
UintToInt(u) ==
    IF u.hi = 0 THEN u.lo ELSE (u.lo - IntMax) - 1

\* unsigned comparison a < b
ULess(a, b) == a.hi < b.hi \/ (a.hi = b.hi /\ a.lo < b.lo)

\* qMin on two uints
UMin(a, b) == IF ULess(b, a) THEN b ELSE a

\* C++ integer division truncates toward zero (b > 0)
TruncDiv(a, b) == IF a >= 0 THEN a \div b ELSE -((-a) \div b)

UZero == IntToUint(0)

\* ------------------------------------------------------ program constants
\* QonsoleWidget(): set_vt_size(80, 24), resize(800, 500)
DefaultCols == 80
DefaultLines == 24
FreeWidgetWidth == 800
FreeWidgetHeight == 500

\* ------------------------------------------------------------ input sets
\* QFontMetrics results (horizontalAdvance('M'), height()) of the fonts used
FontMetrics == {[w |-> 1, h |-> 2], [w |-> 2, h |-> 3]}

\* the metrics of QFont("Monospace", 14), the constructor's font
InitialFont == [w |-> 1, h |-> 2]

\* QWidget's geometry before anyone resizes it: 640 x 480 for a window,
\* 100 x 30 for a child
ToolkitGeometry(parent) ==
    IF parent THEN [w |-> 100, h |-> 30] ELSE [w |-> 640, h |-> 480]

\* unsigned arguments of set_vt_size: small values and the values around
\* the int / uint boundary (2^31 - 1, 2^31, 2^32 - 1)
SizeArgs ==
    {IntToUint(i) : i \in 0..MaxDim} \cup
    {IntToUint(IntMax), IntToUint(IntMin), IntToUint(-1)}

\* width() / height() of the widget, in pixels
WidgetSizes == 0..MaxPixel

\* QMouseEvent::pos(): while a button is held the widget keeps receiving
\* move events for positions outside its rectangle, negative ones included
MousePoints == [x : (-MouseLeft)..MouseRight, y : (-MouseUp)..MouseDown]

\* a press is delivered to the widget under the pointer: inside its rectangle
PressPoints(geometry) ==
    {p \in MousePoints : /\ 0 <= p.x /\ p.x < geometry.w
                         /\ 0 <= p.y /\ p.y < geometry.h}

\* cells handed to is_selected by the draw pass
Cells == [col : {IntToUint(i) : i \in 0..MaxCell},
          line : {IntToUint(i) : i \in 0..MaxCell}]

\* key events: modifier and key
KeyEvents == {[ctrl |-> TRUE, key |-> "C"], [ctrl |-> TRUE, key |-> "X"],
              [ctrl |-> FALSE, key |-> "Return"], [ctrl |-> FALSE, key |-> "Up"],
              [ctrl |-> FALSE, key |-> "a"], [ctrl |-> FALSE, key |-> "Shift"]}

\* the two builds of the header: __linux__ / __APPLE__, and _WIN32
Platforms == {"unix", "win32"}

\* the QonsoleReader objects the host creates
ReaderIds == {1, 2}

\* QonsoleReader(int fd): a pty master (3) and the standard input (0);
\* QonsoleReader(SOCKET) and QonsoleReader(HANDLE) in the _WIN32 build
ReaderObject(p, id) ==
    IF p = "unix"
    THEN [id |-> id, fd |-> IF id = 1 THEN 3 ELSE 0, is_socket |-> FALSE]
    ELSE [id |-> id, fd |-> 0, is_socket |-> (id = 1)]

\* the descriptor of a reader object is the master side of a pty with a
\* locally spawned child process: in the unix build the reader made from
\* create_process_pty's descriptor; the standard input is not one
LocalProcess(p, obj) == p = "unix" /\ obj.id = 1

\* QonsoleReader *reader = nullptr
NullReader == [id |-> 0, fd |-> -1, is_socket |-> FALSE]

\* bytes the engine sends back while it parses a chunk (a device status
\* report), none for most chunks
Replies == {<<>>, <<27, 91, 48, 110>>}

\* ------------------------------------------------------------- variables
VARIABLES
    m_char_width, m_char_height,  \* font metrics
    wsize,                        \* widget geometry [w, h] in pixels
    m_cols, m_lines,              \* grid size (int)
    m_is_selecting, m_selection,  \* selection state
    m_cursor_pos,                 \* q_cursor_pos {x, y} (uint)
    m_screen, m_vte,              \* engine pointers: "valid", "null", "wild"
    tsm,                          \* state of the libtsm screen behind m_screen
    reader,                       \* attached QonsoleReader: NullReader or
                                  \* its [id, fd, is_socket]
    pressed,                      \* a mouse button is held over the widget
    alive,                        \* FALSE once the process has crashed
    last_call,                    \* the last operation: its arguments and result
    platform,                     \* the build: "unix" or "win32"
    rd,                           \* the QonsoleReader objects: thread position
                                  \* pc, __running, chunks read (pos), result
                                  \* of the last read, connections to the
                                  \* widget (conns), highest chunk fed (fed)
    events,                       \* the UI thread's queue of posted signal
                                  \* deliveries [r, c]: chunk c of reader r
    colours                       \* m_palette[16], m_default_fg, m_default_bg,
                                  \* m_selection_bg

vars == <<m_char_width, m_char_height, wsize, m_cols, m_lines, m_is_selecting,
          m_selection, m_cursor_pos, m_screen, m_vte, tsm, reader, pressed,
          alive, last_call, platform, rd, events, colours>>

\* the build, the reader objects, the pending deliveries and the colours
iovars == <<platform, rd, events, colours>>

Call(op, args, ret) == [op |-> op, args |-> args, ret |-> ret]

\* ------------------------------------------------------- libtsm (engine)
\* tsm_screen_new: an 80 x 24 screen with the cursor at the origin
TsmScreenNew ==
    [size_x |-> IntToUint(80), size_y |-> IntToUint(24),
     cursor_x |-> UZero, cursor_y |-> UZero]

\* tsm_screen_resize(con, x, y): rejects a zero dimension, otherwise stores
\* the size and keeps the cursor inside it
tsm_screen_resize(t, x, y) ==
    IF x = UZero \/ y = UZero THEN t
    ELSE [size_x |-> x, size_y |-> y,
          cursor_x |-> IF ULess(t.cursor_x, x) THEN t.cursor_x
                       ELSE IntToUint(UintToInt(x) - 1),
          cursor_y |-> IF ULess(t.cursor_y, y) THEN t.cursor_y
                       ELSE IntToUint(UintToInt(y) - 1)]

\* values read through a pointer that was never initialised
WildValues == {IntToUint(0), IntToUint(-1)}

\* ---------------------------------------------------------------- colours
\* a QColor that was default-constructed and never assigned
InvalidColour == "invalid"

\* the 16 entries load_default_palette stores (Dracula), by index
DraculaEntries ==
    <<"#21222C", "#FF5555", "#50FA7B", "#F1FA8C", "#BD93F9", "#FF79C6",
      "#8BE9FD", "#F8F8F2", "#6272A4", "#FF6E6E", "#69FF94", "#FFFFA5",
      "#D6ACFF", "#FF92DF", "#A4FFFF", "#FFFFFF">>

\* another theme a host hands to set_color_palette (the xterm colours)
XtermEntries ==
    <<"#000000", "#CD0000", "#00CD00", "#CDCD00", "#0000EE", "#CD00CD",
      "#00CDCD", "#E5E5E5", "#7F7F7F", "#FF0000", "#00FF00", "#FFFF00",
      "#5C5CFF", "#FF00FF", "#00FFFF", "#FFFFFE">>

\* q_palette values: black .. bright_white as entries 0 .. 15, selection_bg
Palettes ==
    {[entries |-> [i \in 0..15 |-> DraculaEntries[i + 1]],
      selection_bg |-> "rgba(255,255,255,40)"],
     [entries |-> [i \in 0..15 |-> XtermEntries[i + 1]],
      selection_bg |-> "#4D4D4D"]}

\* set_color_palette(plt) / load_default_palette: the 16 entries, the
\* defaults m_default_fg = m_palette[7] and m_default_bg = m_palette[0], and
\* the selection background
PaletteState(plt) ==
    [palette |-> plt.entries, default_fg |-> plt.entries[7],
     default_bg |-> plt.entries[0], selection_bg |-> plt.selection_bg]

\* load_default_palette()
load_default_palette ==
    PaletteState([entries |-> [i \in 0..15 |-> DraculaEntries[i + 1]],
                  selection_bg |-> "rgba(255,255,255,40)"])

\* the colour members when the constructor returned before
\* load_default_palette
UnloadedColours ==
    [palette |-> [i \in 0..15 |-> InvalidColour],
     default_fg |-> InvalidColour, default_bg |-> InvalidColour,
     selection_bg |-> InvalidColour]

\* tsm_screen_attr of a cell: the colour codes and the inverse flag
CellAttrs ==
    [fccode : (-1)..MaxColourCode, bccode : (-1)..MaxColourCode,
     inverse : BOOLEAN]

\* the cells whose drawing is followed: the first and the last of Cells
DrawnCells ==
    {[col |-> UZero, line |-> UZero],
     [col |-> IntToUint(MaxCell), line |-> IntToUint(MaxCell)]}

\* ----------------------------------------------------------- construction
\* QonsoleReader(...): __running = false, the thread not started
NewReader ==
    [pc |-> "idle", running |-> FALSE, pos |-> 0, last_read |-> "none",
     conns |-> 0, fed |-> 0]

\* q_selection m_selection {0, 2, 0, 9, true}
InitialSelection ==
    [start_line |-> IntToUint(0), start_column |-> IntToUint(2),
     end_line |-> IntToUint(0), end_column |-> IntToUint(9), active |-> TRUE]

\* QonsoleWidget(parent): the state the constructor leaves.  m_screen and
\* m_vte have no initialiser: when tsm_screen_new fails both keep whatever
\* the memory held, when tsm_vte_new fails m_screen is nulled and m_vte keeps
\* it.  A free widget (no parent) is resized to 800 x 500 when both engine
\* objects exist; before that widget_fit_vt_size tests the still
\* uninitialised m_screen and, when it reads as non-null (fit), resizes the
\* widget to the grid size in pixels.
Constructed(parent, outcome, fit) ==
    /\ m_char_width = InitialFont.w
    /\ m_char_height = InitialFont.h
    /\ m_cols = DefaultCols
    /\ m_lines = DefaultLines
    /\ m_is_selecting = FALSE
    /\ m_selection = InitialSelection
    /\ m_cursor_pos = [x |-> UZero, y |-> UZero]
    /\ m_screen \in (CASE outcome = "ok" -> {"valid"}
                       [] outcome = "screen_failed" -> {"null", "wild"}
                       [] outcome = "vte_failed" -> {"null"})
    /\ m_vte \in (IF outcome = "ok" THEN {"valid"} ELSE {"null", "wild"})
    /\ tsm = TsmScreenNew
    /\ wsize = (IF parent THEN ToolkitGeometry(parent)
                ELSE IF outcome = "ok"
                THEN [w |-> FreeWidgetWidth, h |-> FreeWidgetHeight]
                ELSE IF fit
                THEN [w |-> DefaultCols * InitialFont.w,
                      h |-> DefaultLines * InitialFont.h]
                ELSE ToolkitGeometry(parent))
    /\ reader = NullReader
    /\ pressed = FALSE
    /\ alive = TRUE
    /\ last_call = Call("QonsoleWidget", <<>>, outcome)
    /\ platform \in Platforms
    /\ rd = [id \in ReaderIds |-> NewReader]
    /\ events = <<>>
    /\ colours = (IF outcome = "ok" THEN load_default_palette
                  ELSE UnloadedColours)

Outcomes == {"ok", "screen_failed", "vte_failed"}

Init ==
    \E parent \in BOOLEAN, outcome \in Outcomes, fit \in BOOLEAN :
        Constructed(parent, outcome, fit)

\* a child widget: its geometry is the parent's business and none of the
\* key, mouse and selection handlers reads it
InitChild == \E outcome \in Outcomes : Constructed(TRUE, outcome, FALSE)

\* a child widget whose engine was created: the one that has a screen to dump
InitEngine == Constructed(TRUE, "ok", FALSE)

\* ------------------------------------------------------------- grid size
\* ClampDim with the test written as v < 0: a zero dimension gets through
ClampDim_negative_only(v) == IF v < 0 THEN 1 ELSE v

\* resize_vt: if (m_cols < 1) m_cols = 1;  (and the same for m_lines)
ClampDim(v) == IF v < 1 THEN 1 ELSE v

\* resize_vt handing the engine the size it was entered with, not the
\* clamped one
resize_vt_push_unclamped(c, l, op, args) ==
    LET nc == ClampDim(c)
        nl == ClampDim(l)
    IN  /\ m_cols' = nc
        /\ m_lines' = nl
        /\ CASE m_screen = "valid" ->
                  /\ tsm' = tsm_screen_resize(tsm, IntToUint(c), IntToUint(l))
                  /\ alive' = TRUE
             [] m_screen = "null" ->
                  /\ tsm' = tsm
                  /\ alive' = TRUE
             [] m_screen = "wild" ->
                  /\ tsm' = tsm
                  /\ alive' \in BOOLEAN
        /\ last_call' = Call(op, args,
               [tsm_resized |-> m_screen = "valid",
                tsm_calls |-> IF m_screen # "null" THEN {"tsm_screen_resize"}
                              ELSE {},
                ioctl |-> IF platform = "unix" /\ reader # NullReader
                          THEN reader.fd >= 0 ELSE FALSE])

\* resize_vt, entered with m_cols = c and m_lines = l: clamp, push the size
\* to the engine when m_screen is not null (tsm_calls: the engine functions
\* called), notify the pty when, in the unix build, a reader with a
\* descriptor >= 0 is attached
resize_vt(c, l, op, args) ==
    LET nc == ClampDim(c)
        nl == ClampDim(l)
    IN  /\ m_cols' = nc
        /\ m_lines' = nl
        /\ CASE m_screen = "valid" ->
                  /\ tsm' = tsm_screen_resize(tsm, IntToUint(nc), IntToUint(nl))
                  /\ alive' = TRUE
             [] m_screen = "null" ->
                  /\ tsm' = tsm
                  /\ alive' = TRUE
             [] m_screen = "wild" ->
                  /\ tsm' = tsm
                  /\ alive' \in BOOLEAN
        /\ last_call' = Call(op, args,
               [tsm_resized |-> m_screen = "valid",
                tsm_calls |-> IF m_screen # "null" THEN {"tsm_screen_resize"}
                              ELSE {},
                ioctl |-> IF platform = "unix" /\ reader # NullReader
                          THEN reader.fd >= 0 ELSE FALSE])

\* set_vt_size(uint cols, uint lines): m_cols = cols; m_lines = lines;
set_vt_size(c, l) ==
    /\ alive
    /\ UNCHANGED iovars
    /\ resize_vt(UintToInt(c), UintToInt(l), "set_vt_size", <<c, l>>)
    /\ UNCHANGED <<m_char_width, m_char_height, wsize, m_is_selecting,
                   m_selection, m_cursor_pos, m_screen, m_vte, reader,
                   pressed>>

\* vt_fit_widget_size: m_cols = width() / m_char_width; ...
vt_fit_widget_size ==
    /\ alive
    /\ UNCHANGED iovars
    /\ resize_vt(TruncDiv(wsize.w, m_char_width),
                 TruncDiv(wsize.h, m_char_height), "vt_fit_widget_size", <<>>)
    /\ UNCHANGED <<m_char_width, m_char_height, wsize, m_is_selecting,
                   m_selection, m_cursor_pos, m_screen, m_vte, reader,
                   pressed>>

\* get_terminal_size(cols, lines)
get_terminal_size ==
    /\ alive
    /\ UNCHANGED iovars
    /\ last_call' = Call("get_terminal_size", <<>>,
                         [cols |-> m_cols, lines |-> m_lines])
    /\ UNCHANGED <<m_char_width, m_char_height, wsize, m_cols, m_lines,
                   m_is_selecting, m_selection, m_cursor_pos, m_screen, m_vte,
                   tsm, reader, pressed, alive>>

\* the window system (or a layout) gives the widget a new geometry; the
\* widget has no resizeEvent, so nothing else changes
WidgetResized(w, h) ==
    /\ alive
    /\ UNCHANGED iovars
    /\ wsize' = [w |-> w, h |-> h]
    /\ last_call' = Call("resize", <<w, h>>, "void")
    /\ UNCHANGED <<m_char_width, m_char_height, m_cols, m_lines,
                   m_is_selecting, m_selection, m_cursor_pos, m_screen, m_vte,
                   tsm, reader, pressed, alive>>

\* set_font: update_metrics re-reads the character cell size
set_font(fm) ==
    /\ alive
    /\ UNCHANGED iovars
    /\ m_char_width' = fm.w
    /\ m_char_height' = fm.h
    /\ last_call' = Call("set_font", <<fm>>, "void")
    /\ UNCHANGED <<wsize, m_cols, m_lines, m_is_selecting, m_selection,
                   m_cursor_pos, m_screen, m_vte, tsm, reader, pressed, alive>>

\* -------------------------------------------------------------- selection
\* reset_selection: m_selection = {0, 0, 0, 0, false}
ResetSelection ==
    [start_line |-> UZero, start_column |-> UZero,
     end_line |-> UZero, end_column |-> UZero, active |-> FALSE]

\* px2pos(p, col, line): col = p.x() / m_char_width, an int stored in a uint
px2pos(p, cw, ch) ==
    [col |-> IntToUint(TruncDiv(p.x, cw)), line |-> IntToUint(TruncDiv(p.y, ch))]

\* mousePressEvent: reset_selection(); active = true; px2pos into start
PressSelection(p, cw, ch) ==
    [ResetSelection EXCEPT !.active = TRUE,
                           !.start_column = px2pos(p, cw, ch).col,
                           !.start_line = px2pos(p, cw, ch).line]

\* mouseMoveEvent on an active selection: px2pos into end
MoveSelection(sel, p, cw, ch) ==
    [sel EXCEPT !.end_column = px2pos(p, cw, ch).col,
                !.end_line = px2pos(p, cw, ch).line]

\* InRange without the normalising swap
InRange_no_swap(sel, col, line) ==
    LET sl == UintToInt(sel.start_line)
        sc == UintToInt(sel.start_column)
        el == UintToInt(sel.end_line)
        ec == UintToInt(sel.end_column)
    IN  IF ULess(line, IntToUint(sl)) \/ ULess(IntToUint(el), line) THEN FALSE
        ELSE IF line = IntToUint(sl) /\ ULess(col, IntToUint(sc)) THEN FALSE
        ELSE IF line = IntToUint(el) /\ ULess(IntToUint(ec), col) THEN FALSE
        ELSE TRUE

\* is_selected, after the m_is_selecting test: sl, sc, el, ec are ints, the
\* normalisation compares them as ints; col and line are uints, so the three
\* range tests convert the int to unsigned
InRange(sel, col, line) ==
    LET sl0 == UintToInt(sel.start_line)
        sc0 == UintToInt(sel.start_column)
        el0 == UintToInt(sel.end_line)
        ec0 == UintToInt(sel.end_column)
        swap == sl0 > el0 \/ (sl0 = el0 /\ sc0 > ec0)
        sl == IF swap THEN el0 ELSE sl0
        sc == IF swap THEN ec0 ELSE sc0
        el == IF swap THEN sl0 ELSE el0
        ec == IF swap THEN sc0 ELSE ec0
    IN  IF ULess(line, IntToUint(sl)) \/ ULess(IntToUint(el), line) THEN FALSE
        ELSE IF line = IntToUint(sl) /\ ULess(col, IntToUint(sc)) THEN FALSE
        ELSE IF line = IntToUint(el) /\ ULess(IntToUint(ec), col) THEN FALSE
        ELSE TRUE

\* is_selected testing m_selection.active in place of m_is_selecting
is_selected_by_active(selecting, sel, col, line) ==
    IF ~sel.active THEN FALSE ELSE InRange(sel, col, line)

\* is_selected(col, line)
is_selected(selecting, sel, col, line) ==
    IF ~selecting THEN FALSE ELSE InRange(sel, col, line)

\* --------------------------------------------------------------- drawing
\* m_palette[i]: an index outside 0..15 reads past the array
PaletteAt(col, i) ==
    IF i \in DOMAIN col.palette THEN col.palette[i] ELSE "out of bounds"

\* the colour tests written as code <= 16
ResolveColours_upto16(col, attr, iss) ==
    LET fgp == attr.fccode >= 0 /\ attr.fccode <= 16
        bgp == attr.bccode >= 0 /\ attr.bccode <= 16
        fg == IF fgp THEN PaletteAt(col, attr.fccode) ELSE col.default_fg
        bg == IF bgp THEN PaletteAt(col, attr.bccode) ELSE col.default_bg
        fg2 == IF attr.inverse THEN bg ELSE fg
        bg2 == IF attr.inverse THEN fg ELSE bg
    IN  [fg |-> fg2,
         bg |-> IF iss THEN col.selection_bg ELSE bg2,
         reads |-> (IF fgp THEN {attr.fccode} ELSE {}) \cup
                   (IF bgp THEN {attr.bccode} ELSE {}),
         iss |-> iss]

\* draw_callback, "Get colors" to "Draw background": the defaults, the
\* palette entry for a code in 0..15, the swap when inverse is set, the
\* selection background for a selected cell; reads are the palette indices
\* accessed
ResolveColours(col, attr, iss) ==
    LET fgp == attr.fccode >= 0 /\ attr.fccode < 16
        bgp == attr.bccode >= 0 /\ attr.bccode < 16
        fg == IF fgp THEN PaletteAt(col, attr.fccode) ELSE col.default_fg
        bg == IF bgp THEN PaletteAt(col, attr.bccode) ELSE col.default_bg
        fg2 == IF attr.inverse THEN bg ELSE fg
        bg2 == IF attr.inverse THEN fg ELSE bg
    IN  [fg |-> fg2,
         bg |-> IF iss THEN col.selection_bg ELSE bg2,
         reads |-> (IF fgp THEN {attr.fccode} ELSE {}) \cup
                   (IF bgp THEN {attr.bccode} ELSE {}),
         iss |-> iss]

\* draw_callback for the cell at (posx, posy) with attributes attr, called
\* by tsm_screen_draw from paintEvent when there is a screen
draw_callback(attr, cell) ==
    /\ alive
    /\ UNCHANGED iovars
    /\ m_screen = "valid"
    /\ last_call' = Call("draw_callback", <<attr, cell>>,
           ResolveColours(colours, attr,
               is_selected(m_is_selecting, m_selection, cell.col, cell.line)))
    /\ UNCHANGED <<m_char_width, m_char_height, wsize, m_cols, m_lines,
                   m_is_selecting, m_selection, m_cursor_pos, m_screen, m_vte,
                   tsm, reader, pressed, alive>>

\* set_color_palette(plt)
set_color_palette(plt) ==
    /\ alive
    /\ colours' = PaletteState(plt)
    /\ last_call' = Call("set_color_palette", <<plt.selection_bg>>, "void")
    /\ UNCHANGED <<m_char_width, m_char_height, wsize, m_cols, m_lines,
                   m_is_selecting, m_selection, m_cursor_pos, m_screen, m_vte,
                   tsm, reader, pressed, alive, platform, rd, events>>

\* ------------------------------------------------------------------ keys
\* utils::qey2a: the byte sequence of a key event, empty when it has none
qey2a(ev) ==
    IF ev.ctrl
    THEN (IF ev.key = "C" THEN <<3>> ELSE <<>>)
    ELSE CASE ev.key = "Return" -> <<10>>
           [] ev.key = "Up" -> <<27, 91, 65>>
           [] ev.key = "a" -> <<97>>
           [] OTHER -> <<>>

\* write_to_source's test before it writes: reader && file_descriptor > 0 in
\* the unix build, reader alone in the _WIN32 build
source_guard ==
    IF reader = NullReader THEN FALSE
    ELSE IF platform = "unix" THEN reader.fd > 0
    ELSE TRUE

\* nothing was written: write_to_source returned -1, or was not called
NotWritten == <<-1>>

\* write_to_source: the bytes handed to write(), NotWritten when the guard
\* (reader && reader->file_descriptor > 0) fails and -1 is returned; the
\* _WIN32 build hands them to send() or WriteFile() whenever reader is set
write_to_source(data) == IF source_guard THEN data ELSE NotWritten

\* update_cursor_pos reading only the column from the engine
update_cursor_pos_x_only(t) ==
    /\ m_cursor_pos' = [m_cursor_pos EXCEPT !.x = t.cursor_x]
    /\ alive' = TRUE

\* update_cursor_pos, t being the engine's screen at the time of the call:
\* read the cursor from m_screen, with no test of the pointer.  libtsm's
\* getters return 0 for a null screen; through a pointer that was never
\* initialised the read crashes or yields any value.
update_cursor_pos_of(t) ==
    CASE m_screen = "valid" ->
           /\ m_cursor_pos' = [x |-> t.cursor_x, y |-> t.cursor_y]
           /\ alive' = TRUE
      [] m_screen = "null" ->
           /\ m_cursor_pos' = [x |-> UZero, y |-> UZero]
           /\ alive' = TRUE
      [] m_screen = "wild" ->
           \/ /\ alive' = FALSE
              /\ m_cursor_pos' = m_cursor_pos
           \/ /\ alive' = TRUE
              /\ m_cursor_pos' \in [x : WildValues, y : WildValues]

\* update_cursor_pos() called while the engine is not being fed
update_cursor_pos == update_cursor_pos_of(tsm)

\* what a key press reports: the result of write_to_source and the engine
\* functions it called
KeyResult(seq) ==
    IF seq # <<>>
    THEN [written |-> write_to_source(seq),
          tsm_calls |-> {"tsm_screen_get_cursor_x", "tsm_screen_get_cursor_y"}]
    ELSE [written |-> NotWritten, tsm_calls |-> {}]

\* keyPressEvent with reset_selection moved inside the test for a sequence
keyPressEvent_reset_if_sequence(ev) ==
    /\ alive
    /\ UNCHANGED iovars
    /\ IF qey2a(ev) # <<>>
       THEN /\ m_is_selecting' = FALSE
            /\ m_selection' = ResetSelection
            /\ update_cursor_pos
            /\ last_call' = Call("keyPressEvent", <<ev>>, KeyResult(qey2a(ev)))
       ELSE /\ UNCHANGED <<m_is_selecting, m_selection, m_cursor_pos, alive>>
            /\ last_call' = Call("keyPressEvent", <<ev>>, KeyResult(<<>>))
    /\ UNCHANGED <<m_char_width, m_char_height, wsize, m_cols, m_lines,
                   m_screen, m_vte, tsm, reader, pressed>>

\* keyPressEvent
keyPressEvent(ev) ==
    /\ alive
    /\ UNCHANGED iovars
    /\ m_is_selecting' = FALSE
    /\ m_selection' = ResetSelection
    /\ IF qey2a(ev) # <<>>
       THEN /\ update_cursor_pos
            /\ last_call' = Call("keyPressEvent", <<ev>>, KeyResult(qey2a(ev)))
       ELSE /\ UNCHANGED <<m_cursor_pos, alive>>
            /\ last_call' = Call("keyPressEvent", <<ev>>, KeyResult(<<>>))
    /\ UNCHANGED <<m_char_width, m_char_height, wsize, m_cols, m_lines,
                   m_screen, m_vte, tsm, reader, pressed>>

\* mousePressEvent
mousePressEvent(p) ==
    /\ alive
    /\ UNCHANGED iovars
    /\ m_is_selecting' = FALSE
    /\ m_selection' = PressSelection(p, m_char_width, m_char_height)
    /\ pressed' = TRUE
    /\ last_call' = Call("mousePressEvent",
                         <<px2pos(p, m_char_width, m_char_height)>>, "void")
    /\ UNCHANGED <<m_char_width, m_char_height, wsize, m_cols, m_lines,
                   m_cursor_pos, m_screen, m_vte, tsm, reader, alive>>

\* mouseMoveEvent: delivered while a button is held (mouse tracking is off)
mouseMoveEvent(p) ==
    /\ alive
    /\ UNCHANGED iovars
    /\ pressed
    /\ IF m_selection.active
       THEN /\ m_is_selecting' = TRUE
            /\ m_selection' = MoveSelection(m_selection, p,
                                            m_char_width, m_char_height)
       ELSE UNCHANGED <<m_is_selecting, m_selection>>
    /\ last_call' = Call("mouseMoveEvent", <<>>, "void")
    /\ UNCHANGED <<m_char_width, m_char_height, wsize, m_cols, m_lines,
                   m_cursor_pos, m_screen, m_vte, tsm, reader, pressed, alive>>

\* mouseReleaseEvent: m_selection.active = false
mouseReleaseEvent ==
    /\ alive
    /\ UNCHANGED iovars
    /\ pressed
    /\ m_selection' = [m_selection EXCEPT !.active = FALSE]
    /\ pressed' = FALSE
    /\ last_call' = Call("mouseReleaseEvent", <<>>, "void")
    /\ UNCHANGED <<m_char_width, m_char_height, wsize, m_cols, m_lines,
                   m_is_selecting, m_cursor_pos, m_screen, m_vte, tsm, reader,
                   alive>>

\* ---------------------------------------------------------- the reader
\* the thread a QThread's run() executes on, and the thread the widget
\* lives on
RunThread(id) == <<"reader", id>>
WidgetThread == <<"ui", 0>>

\* connect(...) with the connection type set to Qt::DirectConnection
ConnectionType_direct(emitter, receiver) == "direct"

\* connect(...) with the connection type set to Qt::BlockingQueuedConnection
ConnectionType_blocking(emitter, receiver) == "blocking"

\* connect(reader, &QonsoleReader::data_ready, this, &on_data_ready) names no
\* connection type: Qt::AutoConnection calls the slot directly when the
\* signal is emitted on the receiver's thread and posts an event to the
\* receiver's thread otherwise
ConnectionType(emitter, receiver) ==
    IF emitter = receiver THEN "direct" ELSE "queued"

\* the loop condition: while (true) in the unix build, while (__running) in
\* the _WIN32 build
LoopTest(p, running) == IF p = "unix" THEN TRUE ELSE running

\* the results one read can have: data (while the source has any), a
\* zero-length read, an error, and would-block on a socket
ReadOutcomes(p, is_socket, more) ==
    (IF more THEN {"data"} ELSE {}) \cup {"zero", "error"} \cup
    (IF p = "win32" /\ is_socket THEN {"wouldblock"} ELSE {})

\* AfterRead with the zero-length read going round the loop again
AfterRead_zero_continues(p, is_socket, outcome, running) ==
    IF outcome \in {"data", "zero"} THEN "loop" ELSE "finished"

\* where run() is after a read: back in the loop or past it.  unix: read()
\* > 0 emits and loops, 0 and < 0 break.  _WIN32 socket: recv() > 0 emits,
\* 0 breaks, WSAEWOULDBLOCK sleeps 10 ms and continues, any other error
\* breaks.  _WIN32 handle: ReadFile succeeding loops (emitting when it read
\* bytes), failing breaks.
AfterRead(p, is_socket, outcome, running) ==
    LET again == IF LoopTest(p, running) THEN "loop" ELSE "finished"
    IN  IF p = "unix"
        THEN (IF outcome = "data" THEN again ELSE "finished")
        ELSE IF is_socket
        THEN (IF outcome \in {"data", "wouldblock"} THEN again ELSE "finished")
        ELSE (IF outcome \in {"data", "zero"} THEN again ELSE "finished")

\* QonsoleReader::is_running()
is_running(id) == rd[id].running

\* the cursor positions a feed can leave the engine's cursor at: column and
\* line 0 or MaxCursor, inside the screen
CursorMoves(t) ==
    {c \in [x : {IntToUint(0), IntToUint(MaxCursor)},
            y : {IntToUint(0), IntToUint(MaxCursor)}] :
        ULess(c.x, t.size_x) /\ ULess(c.y, t.size_y)}

\* on_data_ready(data) for chunk c of reader id, executing on `thread`:
\* if (m_vte) { tsm_vte_input(...); update_cursor_pos(); }.  The engine
\* moves its cursor and may answer (reply) through write_callback, which
\* hands the bytes to write_to_source; update_cursor_pos ends with update(),
\* the repaint request.  Through an m_vte that was never initialised
\* tsm_vte_input crashes or returns.
on_data_ready(id, c, thread) ==
    /\ CASE m_vte = "valid" ->
              \E cur \in CursorMoves(tsm), reply \in Replies :
                  /\ tsm' = [tsm EXCEPT !.cursor_x = cur.x, !.cursor_y = cur.y]
                  /\ update_cursor_pos_of(tsm')
                  /\ last_call' = Call("on_data_ready", <<id, c>>,
                         [thread |-> thread,
                          tsm_calls |-> {"tsm_vte_input",
                                         "tsm_screen_get_cursor_x",
                                         "tsm_screen_get_cursor_y"},
                          reply |-> reply,
                          update |-> TRUE,
                          written |-> IF reply = <<>> THEN NotWritten
                                      ELSE write_to_source(reply)])
         [] m_vte = "null" ->
              /\ UNCHANGED <<tsm, m_cursor_pos, alive>>
              /\ last_call' = Call("on_data_ready", <<id, c>>,
                     [thread |-> thread, tsm_calls |-> {}, reply |-> <<>>,
                      update |-> FALSE, written |-> NotWritten])
         [] m_vte = "wild" ->
              /\ tsm' = tsm
              /\ \/ /\ alive' = FALSE
                    /\ m_cursor_pos' = m_cursor_pos
                 \/ update_cursor_pos_of(tsm)
              /\ last_call' = Call("on_data_ready", <<id, c>>,
                     [thread |-> thread,
                      tsm_calls |-> {"tsm_vte_input",
                                     "tsm_screen_get_cursor_x",
                                     "tsm_screen_get_cursor_y"},
                      reply |-> <<>>,
                      update |-> TRUE,
                      written |-> NotWritten])
    /\ UNCHANGED <<m_char_width, m_char_height, wsize, m_cols, m_lines,
                   m_is_selecting, m_selection, m_screen, m_vte, reader,
                   pressed, platform, colours>>

\* an emit that reaches no slot
Posted_none(id, c, n) == <<>>

\* n posted deliveries of chunk c of reader id, one per connection
Posted(id, c, n) == [i \in 1..n |-> [r |-> id, c |-> c]]

\* connections made by set_reader so far
Connects == rd[1].conns + rd[2].conns

\* set_reader(r): reader = r; connect(...); reader->start().  connect adds a
\* connection each time it is called; QThread::start() does nothing while
\* the thread runs and starts it (again) when it is not running
set_reader(id) ==
    /\ alive
    /\ Connects < MaxConnects
    /\ reader' = ReaderObject(platform, id)
    /\ rd' = [rd EXCEPT ![id].conns = @ + 1,
                        ![id].pc = IF @ \in {"idle", "finished"}
                                   THEN "entry" ELSE @]
    /\ last_call' = Call("set_reader", <<id>>,
                         [started |-> rd[id].pc \in {"idle", "finished"}])
    /\ UNCHANGED <<m_char_width, m_char_height, wsize, m_cols, m_lines,
                   m_is_selecting, m_selection, m_cursor_pos, m_screen, m_vte,
                   tsm, pressed, alive, platform, events, colours>>

\* run(), up to the loop: if (is_running()) return; then the loop condition
\* is evaluated for the first time; past the loop __running = false
RunEnter(id) ==
    /\ alive
    /\ rd[id].pc = "entry"
    /\ rd' = [rd EXCEPT ![id].pc =
                  IF ~is_running(id) /\ LoopTest(platform, rd[id].running)
                  THEN "loop" ELSE "finished"]
    /\ last_call' = Call("QonsoleReader::run", <<id>>,
                         [thread |-> RunThread(id)])
    /\ UNCHANGED <<m_char_width, m_char_height, wsize, m_cols, m_lines,
                   m_is_selecting, m_selection, m_cursor_pos, m_screen, m_vte,
                   tsm, reader, pressed, alive, platform, events, colours>>

\* one iteration of the read loop: read; emit data_ready when bytes were
\* read; stay in the loop or leave it, and past the loop __running = false.
\* An emit through a queued connection posts one event per connection and
\* returns; through a blocking one it returns when the slot has run, through
\* a direct one it runs the slot in place.
ReadStep(id) ==
    LET how == ConnectionType(RunThread(id), WidgetThread)
        obj == ReaderObject(platform, id)
    IN  /\ alive
        /\ rd[id].pc = "loop"
        /\ how = "blocking" => \A i \in 1..Len(events) : events[i].r # id
        /\ \E outcome \in ReadOutcomes(platform, obj.is_socket,
                                       rd[id].pos < MaxChunks) :
             LET pc2 == AfterRead(platform, obj.is_socket, outcome,
                                  rd[id].running)
                 c == rd[id].pos + 1
                 inplace == outcome = "data" /\ how = "direct" /\
                            rd[id].conns > 0
             IN  /\ rd' = [rd EXCEPT
                             ![id].pc = pc2,
                             ![id].running = IF pc2 = "finished" THEN FALSE
                                             ELSE @,
                             ![id].pos = IF outcome = "data" THEN c ELSE @,
                             ![id].last_read = outcome,
                             ![id].fed = IF inplace THEN c ELSE @]
                 /\ IF inplace
                    THEN /\ on_data_ready(id, c, RunThread(id))
                         /\ events' = events
                    ELSE /\ events' = IF outcome = "data"
                                      THEN events \o Posted(id, c, rd[id].conns)
                                      ELSE events
                         /\ last_call' = Call("QonsoleReader::read", <<id>>,
                                [thread |-> RunThread(id), outcome |-> outcome])
                         /\ UNCHANGED <<m_char_width, m_char_height, wsize,
                                        m_cols, m_lines, m_is_selecting,
                                        m_selection, m_cursor_pos, m_screen,
                                        m_vte, tsm, reader, pressed, alive,
                                        platform, colours>>

\* Deliver taking any posted event, not the oldest
Deliver_any(k) ==
    /\ alive
    /\ k \in 1..Len(events)
    /\ events' = [i \in 1..(Len(events) - 1) |->
                     IF i < k THEN events[i] ELSE events[i + 1]]
    /\ rd' = [rd EXCEPT ![events[k].r].fed =
                  IF events[k].c > @ THEN events[k].c ELSE @]
    /\ on_data_ready(events[k].r, events[k].c, WidgetThread)

\* the UI thread's event loop takes the oldest posted delivery (the head
\* of the queue, k = 1) and runs the slot on_data_ready with its chunk
Deliver(k) ==
    /\ alive
    /\ k = 1
    /\ k \in 1..Len(events)
    /\ events' = Tail(events)
    /\ rd' = [rd EXCEPT ![events[k].r].fed =
                  IF events[k].c > @ THEN events[k].c ELSE @]
    /\ on_data_ready(events[k].r, events[k].c, WidgetThread)

\* ------------------------------------------------------- text extraction
\* a QString is a sequence of code points; '\n' is 10
Newline == 10

\* QString::split(sep): the parts between separators, empty parts kept
RECURSIVE split(_, _)
split(text, sep) ==
    IF \A i \in 1..Len(text) : text[i] # sep THEN <<text>>
    ELSE LET k == CHOOSE i \in 1..Len(text) :
                      text[i] = sep /\ \A j \in 1..(i - 1) : text[j] # sep
         IN  <<SubSeq(text, 1, k - 1)>> \o split(SubSeq(text, k + 1, Len(text)), sep)

\* QStringList::join(sep)
RECURSIVE join(_, _)
join(list, sep) ==
    IF list = <<>> THEN <<>>
    ELSE IF Len(list) = 1 THEN list[1]
    ELSE list[1] \o <<sep>> \o join(Tail(list), sep)

\* QString::mid(pos, n): n characters from pos, to the end when n < 0 or
\* when fewer are left; empty when pos is past the end
mid(str, pos, n) ==
    IF pos > Len(str) THEN <<>>
    ELSE IF n < 0 \/ pos + n > Len(str) THEN SubSeq(str, pos + 1, Len(str))
    ELSE SubSeq(str, pos + 1, pos + n)

\* QString::left(n): the first n characters, the whole string when n >= size
left(str, n) == IF n >= Len(str) THEN str ELSE SubSeq(str, 1, n)

\* row r (from 0) of the screen, cut to len characters: rows hold distinct
\* letters, row 0 starting at 'a'
RowText(r, len) == [c \in 1..len |-> 97 + r * MaxRowLen + (c - 1)]

\* a row is cut short or has its full length
RowLens == {MaxRowLen \div 2, MaxRowLen}

\* the rows a screen dump can hold
DumpRows ==
    UNION {[1..n -> RowLens] : n \in 1..MaxDumpRows}

\* dump_screen: the screen content, row strings joined by newlines
dump_screen(lens) == join([r \in 1..Len(lens) |-> RowText(r - 1, lens[r])], Newline)

\* SelectedSingleLine with the swap of start and end left out: a count
\* below zero makes mid return the rest of the line
SelectedSingleLine_no_swap(lines, sel) ==
    LET line == lines[UintToInt(sel.start_line) + 1]
        start == UMin(sel.start_column, IntToUint(Len(line)))
        end == UMin(sel.end_column, IntToUint(Len(line)))
    IN  mid(line, UintToInt(start), UintToInt(end) - UintToInt(start))

\* get_selected_text, start and end on one line: clamp both columns to the
\* line, swap them when end < start, slice
SelectedSingleLine(lines, sel) ==
    LET line == lines[UintToInt(sel.start_line) + 1]
        start0 == UMin(sel.start_column, IntToUint(Len(line)))
        end0 == UMin(sel.end_column, IntToUint(Len(line)))
        start == IF ULess(end0, start0) THEN end0 ELSE start0
        end == IF ULess(end0, start0) THEN start0 ELSE end0
    IN  mid(line, UintToInt(start), UintToInt(end) - UintToInt(start))

\* SelectedMultiLine taking the end column itself into the last line
SelectedMultiLine_end_inclusive(lines, sel) ==
    LET sl == UintToInt(sel.start_line)
        el == UintToInt(sel.end_line)
        first == lines[sl + 1]
        start == UMin(sel.start_column, IntToUint(Len(first)))
        last == lines[el + 1]
        end == UMin(sel.end_column, IntToUint(Len(last)))
        middle == [i \in 1..(el - sl - 1) |-> lines[sl + 1 + i]]
    IN  join(<<mid(first, UintToInt(start), -1)>> \o middle \o
             <<left(last, UintToInt(end) + 1)>>, Newline)

\* get_selected_text, start and end on different lines: the rest of the
\* start line, the lines start_line + 1 .. end_line - 1, the head of the end
\* line, joined by newlines
SelectedMultiLine(lines, sel) ==
    LET sl == UintToInt(sel.start_line)
        el == UintToInt(sel.end_line)
        first == lines[sl + 1]
        start == UMin(sel.start_column, IntToUint(Len(first)))
        last == lines[el + 1]
        end == UMin(sel.end_column, IntToUint(Len(last)))
        middle == [i \in 1..(el - sl - 1) |-> lines[sl + 1 + i]]
    IN  join(<<mid(first, UintToInt(start), -1)>> \o middle \o
             <<left(last, UintToInt(end))>>, Newline)

\* get_selected_text on the dump text and the selection (`sel` is m_selection)
get_selected_text(text, sel) ==
    IF ~sel.active THEN <<>>
    ELSE
    LET lines == split(text, Newline)
        size == IntToUint(Len(lines))
    IN  IF ~ULess(sel.start_line, size) \/ ~ULess(sel.end_line, size) THEN <<>>
        ELSE IF sel.start_line = sel.end_line
        THEN SelectedSingleLine(lines, sel)
        ELSE SelectedMultiLine(lines, sel)

\* get_selected_text(): a query, the widget is left as it is
GetSelectedText(lens) ==
    /\ alive
    /\ UNCHANGED iovars
    /\ last_call' = Call("get_selected_text", <<lens>>,
                         get_selected_text(dump_screen(lens), m_selection))
    /\ UNCHANGED <<m_char_width, m_char_height, wsize, m_cols, m_lines,
                   m_is_selecting, m_selection, m_cursor_pos, m_screen, m_vte,
                   tsm, reader, pressed, alive>>

\* ------------------------------------------------------- specifications
\* grid-size operations
NextGrid ==
    \/ \E c \in SizeArgs, l \in SizeArgs : set_vt_size(c, l)
    \/ vt_fit_widget_size
    \/ get_terminal_size
    \/ \E w \in WidgetSizes, h \in WidgetSizes : WidgetResized(w, h)
    \/ \E fm \in FontMetrics : set_font(fm)

\* key and mouse events
NextSel ==
    \/ \E ev \in KeyEvents : keyPressEvent(ev)
    \/ \E p \in PressPoints(wsize) : mousePressEvent(p)
    \/ \E p \in MousePoints : mouseMoveEvent(p)
    \/ mouseReleaseEvent

\* key and mouse events and the selection query
NextText ==
    \/ NextSel
    \/ \E lens \in DumpRows : GetSelectedText(lens)

\* a reader attached, its thread, and the delivery of its chunks
NextReader ==
    \/ \E id \in ReaderIds : set_reader(id)
    \/ \E id \in ReaderIds : RunEnter(id)
    \/ \E id \in ReaderIds : ReadStep(id)
    \/ \E k \in 1..(MaxChunks * MaxConnects) : Deliver(k)

\* readers attached and the grid resized
NextAttach ==
    \/ \E id \in ReaderIds : set_reader(id)
    \/ \E c \in SizeArgs, l \in SizeArgs : set_vt_size(c, l)
    \/ vt_fit_widget_size

\* the palette set and cells drawn
NextColour ==
    \/ \E plt \in Palettes : set_color_palette(plt)
    \/ \E attr \in CellAttrs, cell \in DrawnCells : draw_callback(attr, cell)

\* one reader (the pty's) attached, its thread, and the delivery of its
\* chunks
NextFeed ==
    \/ set_reader(1)
    \/ RunEnter(1)
    \/ ReadStep(1)
    \/ \E k \in 1..(MaxChunks * MaxConnects) : Deliver(k)

Next == NextGrid \/ NextText \/ NextReader \/ NextColour

Spec == Init /\ [][Next]_vars

\* the widget driven through its grid-size interface only
SpecGrid == Init /\ [][NextGrid]_vars

\* the widget driven by key and mouse events only
SpecSel == InitChild /\ [][NextSel]_vars

\* a widget with an engine, driven by key and mouse events and queried for
\* the selected text
SpecText == InitEngine /\ [][NextText]_vars

\* a child widget with readers handed to it by set_reader
SpecReader == InitChild /\ [][NextReader]_vars

\* a child widget that is handed readers and resized
SpecAttach == InitChild /\ [][NextAttach]_vars

\* a widget with an engine whose cells are drawn
SpecColour == InitEngine /\ [][NextColour]_vars

\* a widget with an engine and a reader, the UI thread's event loop
\* running: a posted delivery is dispatched when the loop gets to it
SpecFeed ==
    /\ InitEngine
    /\ [][NextFeed]_vars
    /\ WF_vars(\E k \in 1..(MaxChunks * MaxConnects) : Deliver(k))

\* ================================================================ claims
\* the int i and the uint u are the same number
SameNumber(i, u) == i >= 0 /\ IntToUint(i) = u

\* a selection is being dragged: a button went down and the mouse has moved
Dragging == m_selection.active /\ m_is_selecting

StartCell == [col |-> m_selection.start_column, line |-> m_selection.start_line]
EndCell == [col |-> m_selection.end_column, line |-> m_selection.end_line]

\* the cells of Cells that is_selected reports in the current state
Highlighted ==
    {c \in Cells : is_selected(m_is_selecting, m_selection, c.col, c.line)}

\* C1: in every reachable state the stored grid size has cols >= 1 and
\* rows >= 1, whatever set_vt_size and vt_fit_widget_size were given.
C1_GridAtLeastOne == m_cols >= 1 /\ m_lines >= 1

\* set_vt_size was handed a zero and a value above INT_MAX and both were
\* stored as 1
C1_Witness ==
    /\ last_call.op = "set_vt_size"
    /\ last_call.args[1] = IntToUint(0)
    /\ last_call.args[2] = IntToUint(-1)
    /\ m_cols = 1
    /\ m_lines = 1

\* C2: get_terminal_size right after set_vt_size(c, r) returns exactly
\* (c, r) when c >= 1 and r >= 1, and 1 for a dimension below 1.
C2_SetThenGet ==
    [][(last_call.op = "set_vt_size" /\ last_call'.op = "get_terminal_size") =>
        /\ IF last_call.args[1] = UZero THEN last_call'.ret.cols = 1
           ELSE SameNumber(last_call'.ret.cols, last_call.args[1])
        /\ IF last_call.args[2] = UZero THEN last_call'.ret.lines = 1
           ELSE SameNumber(last_call'.ret.lines, last_call.args[2])]_vars

\* C3: press at A then drag to B, and press at B then drag to A, give the
\* same is_selected result for every cell.  In a state reached by dragging
\* from A to B the cells reported are those the handlers give for the
\* reversed gesture.
C3_OrderIndependent ==
    Dragging =>
        LET pA == CHOOSE p \in MousePoints :
                      px2pos(p, m_char_width, m_char_height) = StartCell
            pB == CHOOSE p \in MousePoints :
                      px2pos(p, m_char_width, m_char_height) = EndCell
            reversed == MoveSelection(
                            PressSelection(pB, m_char_width, m_char_height),
                            pA, m_char_width, m_char_height)
        IN  \A c \in Cells :
                is_selected(m_is_selecting, m_selection, c.col, c.line) =
                is_selected(TRUE, reversed, c.col, c.line)

\* a drag upwards, from line 2 back to line 0, with cells highlighted
C3_Witness ==
    /\ Dragging
    /\ m_selection.start_line = IntToUint(2)
    /\ m_selection.start_column = IntToUint(1)
    /\ m_selection.end_line = IntToUint(0)
    /\ m_selection.end_column = IntToUint(3)
    /\ [col |-> IntToUint(0), line |-> IntToUint(1)] \in Highlighted
    /\ [col |-> IntToUint(2), line |-> IntToUint(0)] \notin Highlighted

\* (line, col) order on cells, whose coordinates are unsigned
CellLeq(a, b) ==
    \/ ULess(a.line, b.line)
    \/ a.line = b.line /\ ~ULess(b.col, a.col)

\* C4: while a selection from A to B is dragged, is_selected(col, row) is
\* true iff the cell lies between the smaller and the larger of A and B in
\* (row, column) order, both inclusive.
C4_InclusiveRange ==
    Dragging =>
        LET lo == IF CellLeq(StartCell, EndCell) THEN StartCell ELSE EndCell
            hi == IF CellLeq(StartCell, EndCell) THEN EndCell ELSE StartCell
        IN  \A c \in Cells :
                is_selected(m_is_selecting, m_selection, c.col, c.line) <=>
                (CellLeq(lo, c) /\ CellLeq(c, hi))

C6_PressZeroLength ==
    last_call.op = "mousePressEvent" =>
        /\ m_selection.active
        /\ StartCell = last_call.args[1]
        /\ EndCell = last_call.args[1]

\* C7: every key press, with or without a byte sequence, leaves the
\* selection {0,0,0,0,inactive} with no cell selected; the stored selection
\* stays so until the next mouse press, and no cell is selected until a
\* mouse move that follows a press.
C7_KeyResets ==
    [][/\ last_call'.op = "keyPressEvent" =>
            /\ m_selection' = ResetSelection
            /\ \A c \in Cells :
                   ~is_selected(m_is_selecting', m_selection', c.col, c.line)
       /\ (m_selection = ResetSelection /\ ~m_is_selecting
           /\ last_call'.op # "mousePressEvent") =>
            (m_selection' = ResetSelection /\ ~m_is_selecting')
       /\ (~m_is_selecting /\ m_is_selecting') =>
            (last_call'.op = "mouseMoveEvent" /\ m_selection.active /\ pressed)
      ]_vars

\* a key without a byte sequence, pressed while a button is held, has reset
\* the selection
C7_Witness ==
    /\ last_call.op = "keyPressEvent"
    /\ qey2a(last_call.args[1]) = <<>>
    /\ pressed
    /\ m_selection = ResetSelection
    /\ ~m_is_selecting

\* the rows of the dump the last get_selected_text call worked on
DumpOf(call) == [r \in 1..Len(call.args[1]) |-> RowText(r - 1, call.args[1][r])]

\* a uint column cut down to a row of length len, as a number
ClampCol(u, len) == IF u.hi = 1 \/ u.lo > len THEN len ELSE u.lo

\* the characters lo+1 .. hi of a row (columns lo .. hi-1 counted from 0)
Slice(row, lo, hi) == [i \in 1..(hi - lo) |-> row[lo + i]]

\* a uint line number lies inside a dump of n rows
LineInside(u, n) == u.hi = 0 /\ u.lo < n

\* the state a press, a drag and a release leave: only a release clears the
\* active flag while m_is_selecting is set
ReleasedAfterDrag == m_is_selecting /\ ~m_selection.active

\* C8: after press at A, drag to B and release, get_selected_text (called
\* before the next press or key press) returns the text covered by A..B,
\* the text it returns for that range while the drag is on.
C8_ExtractAfterRelease ==
    (last_call.op = "get_selected_text" /\ ReleasedAfterDrag) =>
        last_call.ret =
            get_selected_text(dump_screen(last_call.args[1]),
                              [m_selection EXCEPT !.active = TRUE])

\* C9: for an active selection with start and end on one row of the dump,
\* get_selected_text returns that row from column min(s, e) up to but not
\* including column max(s, e), s and e being the start and end column each
\* clamped to the row's length.
C9_SingleRow ==
    (/\ last_call.op = "get_selected_text"
     /\ m_selection.active
     /\ m_selection.start_line = m_selection.end_line
     /\ LineInside(m_selection.start_line, Len(DumpOf(last_call)))) =>
        LET row == DumpOf(last_call)[m_selection.start_line.lo + 1]
            s == ClampCol(m_selection.start_column, Len(row))
            e == ClampCol(m_selection.end_column, Len(row))
            lo == IF s <= e THEN s ELSE e
            hi == IF s <= e THEN e ELSE s
        IN  last_call.ret = Slice(row, lo, hi)

\* row "abcdef", start column 2, end column 5: "cde"
C9_Witness ==
    /\ last_call.op = "get_selected_text"
    /\ m_selection.active
    /\ DumpOf(last_call)[1] = <<97, 98, 99, 100, 101, 102>>
    /\ m_selection.start_line = IntToUint(0)
    /\ m_selection.end_line = IntToUint(0)
    /\ m_selection.start_column = IntToUint(2)
    /\ m_selection.end_column = IntToUint(5)
    /\ last_call.ret = <<99, 100, 101>>

\* rows[from .. to] one after the other, a newline before each
RECURSIVE NewlineBeforeEach(_, _, _)
NewlineBeforeEach(rows, from, to) ==
    IF from > to THEN <<>>
    ELSE <<Newline>> \o rows[from] \o NewlineBeforeEach(rows, from + 1, to)

\* C10: for an active selection from (startRow, startCol) to (endRow,
\* endCol) with startRow < endRow, both inside the dump, get_selected_text
\* returns the rest of startRow from startCol, the rows strictly between
\* verbatim and the head of endRow up to endCol, newline-joined, both
\* columns clamped to their row's length.
C10_MultiRow ==
    (/\ last_call.op = "get_selected_text"
     /\ m_selection.active
     /\ LineInside(m_selection.start_line, Len(DumpOf(last_call)))
     /\ LineInside(m_selection.end_line, Len(DumpOf(last_call)))
     /\ m_selection.start_line.lo < m_selection.end_line.lo) =>
        LET rows == DumpOf(last_call)
            sr == m_selection.start_line.lo + 1
            er == m_selection.end_line.lo + 1
            sc == ClampCol(m_selection.start_column, Len(rows[sr]))
            ec == ClampCol(m_selection.end_column, Len(rows[er]))
        IN  last_call.ret =
                Slice(rows[sr], sc, Len(rows[sr])) \o
                NewlineBeforeEach(rows, sr + 1, er - 1) \o
                <<Newline>> \o Slice(rows[er], 0, ec)

\* three full rows, from (row 0, col 3) to (row 2, col 2):
\* "def" newline "ghijkl" newline "mn"
C10_Witness ==
    /\ last_call.op = "get_selected_text"
    /\ m_selection.active
    /\ last_call.args[1] = <<MaxRowLen, MaxRowLen, MaxRowLen>>
    /\ StartCell = [col |-> IntToUint(3), line |-> IntToUint(0)]
    /\ EndCell = [col |-> IntToUint(2), line |-> IntToUint(2)]
    /\ Len(last_call.ret) = (MaxRowLen - 3) + 1 + MaxRowLen + 1 + 2
    /\ last_call.ret[1] = 97 + 3
    /\ last_call.ret[Len(last_call.ret)] = 97 + 2 * MaxRowLen + 1

\* C11: the selection's start and end cell coordinates are always inside
\* the grid (column < m_cols, line < m_lines), for every pixel position
\* handed to the mouse handlers, positions outside the widget and negative
\* ones included.
C11_CellsInsideGrid ==
    /\ ULess(StartCell.col, IntToUint(m_cols))
    /\ ULess(StartCell.line, IntToUint(m_lines))
    /\ ULess(EndCell.col, IntToUint(m_cols))
    /\ ULess(EndCell.line, IntToUint(m_lines))

\* ------------------------------------------------------- reader and feed
\* the step is a read by reader id with the given result
ReadBy(id, outcome) ==
    /\ last_call'.op = "QonsoleReader::read"
    /\ last_call'.args[1] = id
    /\ last_call'.ret.outcome = outcome

\* the deliveries of reader id's chunks waiting in the UI thread's queue
Pending(id, q) == Cardinality({i \in 1..Len(q) : q[i].r = id})

\* the widget's own state: everything but the record of the last operation,
\* the reader objects and the queue
WidgetState ==
    <<m_char_width, m_char_height, wsize, m_cols, m_lines, m_is_selecting,
      m_selection, m_cursor_pos, m_screen, m_vte, tsm, reader, pressed,
      colours>>

\* the engine objects were not created
NoEngine == m_vte # "valid"

\* C12: a reader whose source yields a zero-length read leaves its read
\* loop at once, is_running() reports it not running, and it emits no
\* data_ready chunk after that read: the step that reads zero bytes ends
\* the loop without posting anything, and nothing is posted for a reader
\* whose loop has ended.
C12_ZeroReadEndsLoop ==
    [][\A id \in ReaderIds :
          /\ ReadBy(id, "zero") =>
                /\ rd'[id].pc = "finished"
                /\ ~rd'[id].running
                /\ events' = events
          /\ rd[id].pc = "finished" =>
                Pending(id, events') <= Pending(id, events)]_vars

\* reader 1 emitted a chunk, then read zero bytes and is past its loop
C12_Witness ==
    /\ last_call.op = "QonsoleReader::read"
    /\ last_call.args[1] = 1
    /\ last_call.ret.outcome = "zero"
    /\ rd[1].pos >= 1
    /\ rd[1].pc = "finished"
    /\ ~is_running(1)

\* the last read of reader id was one that ends the loop (end of stream or
\* a hard error)
EndedByRead(id) ==
    /\ rd[id].last_read # "none"
    /\ AfterRead(platform, ReaderObject(platform, id).is_socket,
                 rd[id].last_read, TRUE) = "finished"

\* C13: once a reader's loop has terminated on end of stream or a hard
\* error, that reader performs no further read and emits no further chunk,
\* whatever is done to the reader or the widget afterwards.
C13_TerminationFinal ==
    [][\A id \in ReaderIds :
          EndedByRead(id) =>
              /\ ~(last_call'.op = "QonsoleReader::read" /\
                   last_call'.args[1] = id)
              /\ Pending(id, events') <= Pending(id, events)]_vars

\* C14: chunks reach on_data_ready in the order they were read: a chunk
\* handed to on_data_ready is never older than one of the same reader that
\* on_data_ready has already been given.
C14_FedInReadOrder ==
    [][last_call'.op = "on_data_ready" =>
          last_call'.args[2] >= rd[last_call'.args[1]].fed]_vars

\* the second chunk of reader 1 was fed to the engine after the first,
\* while a chunk of reader 2 is still waiting
C14_Witness ==
    /\ last_call.op = "on_data_ready"
    /\ last_call.args = <<1, 2>>
    /\ rd[1].fed = 2
    /\ m_vte = "valid"
    /\ Pending(2, events) >= 1

\* C15: the reader thread never touches widget state, the engine or
\* drawing; on_data_ready, and with it write_callback / write_to_source,
\* executes on the UI thread only.
C15_UiThreadOnly ==
    [][/\ last_call'.op \in {"QonsoleReader::run", "QonsoleReader::read"} =>
            /\ last_call'.ret.thread = RunThread(last_call'.args[1])
            /\ UNCHANGED WidgetState
       /\ last_call'.op = "on_data_ready" =>
            last_call'.ret.thread = WidgetThread]_vars

\* the engine answered a chunk and write_to_source wrote the answer to the
\* pty, on the UI thread, while the reader's thread is in its loop
C15_Witness ==
    /\ last_call.op = "on_data_ready"
    /\ last_call.ret.thread = WidgetThread
    /\ last_call.ret.reply = <<27, 91, 48, 110>>
    /\ reader = ReaderObject("unix", 1)
    /\ rd[last_call.args[1]].pc = "loop"

\* C16: delivering a chunk never blocks the read loop: a reader in its loop
\* can perform its next read whatever the number of chunks waiting to be
\* handled.
C16_ReadNeverBlocked ==
    \A id \in ReaderIds :
        (alive /\ rd[id].pc = "loop") => ENABLED ReadStep(id)

\* reader 1 has read every chunk of its source, none has been handled yet,
\* and it is in its loop, about to read again
C16_Witness ==
    /\ last_call.op = "QonsoleReader::read"
    /\ last_call.args[1] = 1
    /\ last_call.ret.outcome = "data"
    /\ rd[1].pc = "loop"
    /\ rd[1].pos = MaxChunks
    /\ rd[1].fed = 0
    /\ Pending(1, events) >= MaxChunks
    /\ ENABLED ReadStep(1)

\* C17: for a socket source a read that fails with would-block does not
\* terminate the reader: the loop waits and reads again and the reader
\* stays running; only end of stream or another error ends the loop.  So a
\* socket reader that is past its loop has read end of stream or an error.
C17_SocketEndsOnlyOnEofOrError ==
    \A id \in ReaderIds :
        (/\ platform = "win32"
         /\ ReaderObject(platform, id).is_socket
         /\ rd[id].pc = "finished") => rd[id].last_read \in {"zero", "error"}

\* C18: after on_data_ready has fed a chunk to an existing engine, the
\* stored cursor position equals the cursor position the engine reports.
C18_CursorFollowsEngine ==
    (last_call.op = "on_data_ready" /\ m_vte = "valid" /\ m_screen = "valid")
        => m_cursor_pos = [x |-> tsm.cursor_x, y |-> tsm.cursor_y]

\* a chunk moved the engine's cursor to (MaxCursor, MaxCursor) and the
\* widget's copy followed
C18_Witness ==
    /\ last_call.op = "on_data_ready"
    /\ m_vte = "valid"
    /\ tsm.cursor_x = IntToUint(MaxCursor)
    /\ tsm.cursor_y = IntToUint(MaxCursor)
    /\ m_cursor_pos = [x |-> IntToUint(MaxCursor), y |-> IntToUint(MaxCursor)]

\* C19: when the engine could not be constructed the widget is in a
\* no-engine state in which every later feed (on_data_ready) and resize
\* (set_vt_size, vt_fit_widget_size) makes no call into the engine.
C19_NoEngineNoCalls ==
    (NoEngine /\ last_call.op \in {"on_data_ready", "set_vt_size",
                                   "vt_fit_widget_size"})
        => last_call.ret.tsm_calls = {}

\* C20: in the no-engine state a key press that maps to a byte sequence is
\* handled without accessing the engine and without changing the cursor
\* state.  (A getter handed a null screen returns 0 and accesses nothing.)
C20_KeyWithoutEngine ==
    (NoEngine /\ last_call.op = "keyPressEvent" /\
     qey2a(last_call.args[1]) # <<>>)
        => /\ alive
           /\ last_call.ret.tsm_calls = {} \/ m_screen = "null"
           /\ m_cursor_pos = [x |-> UZero, y |-> UZero]

\* ------------------------------------------------- resize and the source
\* C21: a resize issues the window-size-change notification only when the
\* attached reader's source is a locally spawned process; with a reader on a
\* generic descriptor, handle or socket, and with no reader, none is issued.
C21_NotifyLocalProcessOnly ==
    (last_call.op \in {"set_vt_size", "vt_fit_widget_size"} /\
     last_call.ret.ioctl)
        => (reader # NullReader /\ LocalProcess(platform, reader))

\* C23: whenever an engine exists the size last pushed to it equals the
\* stored (clamped) grid size, from construction onward: the engine's grid
\* size and the size get_terminal_size reports never differ.
C23_EngineSizeInSync ==
    m_screen = "valid" =>
        /\ tsm.size_x = IntToUint(m_cols)
        /\ tsm.size_y = IntToUint(m_lines)

\* set_vt_size(0, 2) on a widget with an engine: the grid and the engine
\* both hold 1 x 2
C23_Witness ==
    /\ m_screen = "valid"
    /\ last_call.op = "set_vt_size"
    /\ last_call.args = <<IntToUint(0), IntToUint(2)>>
    /\ m_cols = 1
    /\ tsm.size_x = IntToUint(1)
    /\ tsm.size_y = IntToUint(2)

\* C22: whenever a reader is attached, every byte sequence the engine
\* passes to the write callback is forwarded verbatim to the write path of
\* that reader's source, for every handle value the reader can read from.
C22_ReplyForwarded ==
    (/\ last_call.op = "on_data_ready"
     /\ last_call.ret.reply # <<>>
     /\ reader # NullReader)
        => last_call.ret.written = last_call.ret.reply

\* --------------------------------------------------------------- colours
\* the colour a code stands for: the palette entry for 0..15, the default
\* otherwise
CodeColour(code, default) ==
    IF code \in 0..15 THEN colours.palette[code] ELSE default

\* C24: for a cell that is not selected the foreground and background are
\* the palette entries of the cell's codes when the code is in 0..15 and the
\* default foreground / background for any other code (16, -1), with no
\* palette access outside 0..15; with the inverse attribute the pair is
\* exactly the swap of the pair resolved for the same codes without it.
C24_ColourResolution ==
    (last_call.op = "draw_callback" /\ ~last_call.ret.iss) =>
        LET attr == last_call.args[1]
            fg == CodeColour(attr.fccode, colours.default_fg)
            bg == CodeColour(attr.bccode, colours.default_bg)
            plain == ResolveColours(colours, [attr EXCEPT !.inverse = FALSE],
                                    FALSE)
        IN  /\ last_call.ret.reads \subseteq 0..15
            /\ ~attr.inverse =>
                   (last_call.ret.fg = fg /\ last_call.ret.bg = bg)
            /\ attr.inverse =>
                   /\ last_call.ret.fg = plain.bg
                   /\ last_call.ret.bg = plain.fg
                   /\ plain.fg = fg
                   /\ plain.bg = bg

\* after set_color_palette with the xterm theme, an inverse cell with the
\* codes 16 and -1 is drawn with the defaults swapped: xterm black on white
C24_Witness ==
    /\ last_call.op = "draw_callback"
    /\ ~last_call.ret.iss
    /\ last_call.args[1] = [fccode |-> 16, bccode |-> -1, inverse |-> TRUE]
    /\ colours.default_fg = "#E5E5E5"
    /\ last_call.ret.fg = "#000000"
    /\ last_call.ret.bg = "#E5E5E5"

\* ------------------------------------------------------------------ feed
\* C25: with the UI event loop scheduled fairly and the widget alive with
\* an engine, every chunk a connected reader emits is eventually fed to the
\* engine, and each feed is followed, before the next chunk is handled, by
\* a cursor re-read from the engine and a repaint request.
C25_EveryChunkFed ==
    /\ \A c \in 1..MaxChunks : (rd[1].pos >= c) ~> (rd[1].fed >= c)
    /\ [](last_call.op = "on_data_ready" =>
            /\ {"tsm_vte_input", "tsm_screen_get_cursor_x",
                "tsm_screen_get_cursor_y"} \subseteq last_call.ret.tsm_calls
            /\ last_call.ret.update
            /\ m_cursor_pos = [x |-> tsm.cursor_x, y |-> tsm.cursor_y])

\* every chunk reader 1 read has been fed, the last one just now, and a
\* repaint was requested
C25_Witness ==
    /\ last_call.op = "on_data_ready"
    /\ last_call.args = <<1, MaxChunks>>
    /\ rd[1].pos = MaxChunks
    /\ rd[1].fed = MaxChunks
    /\ last_call.ret.update
    /\ events = <<>>

\* C26: is_running() is true in every state in which the reader's loop is
\* reading or delivering chunks, and false before start and after the loop
\* has ended; a start request made while the thread runs begins no second
\* loop.
C26_IsRunningTracksLoop ==
    /\ \A id \in ReaderIds : is_running(id) <=> rd[id].pc = "loop"
    /\ (last_call.op = "set_reader" /\ ~last_call.ret.started) =>
           rd[last_call.args[1]].pc \in {"entry", "loop"}

\* C27: each chunk a reader emits is fed to the engine exactly once, and
\* only chunks of the most recently attached reader are fed: a chunk handed
\* to on_data_ready comes from the reader set_reader was last given and is
\* newer than every chunk of that reader handed over before.
C27_FedOnceFromCurrentReader ==
    [][(last_call'.op = "on_data_ready" /\
        "tsm_vte_input" \in last_call'.ret.tsm_calls) =>
          /\ last_call'.args[1] = reader.id
          /\ last_call'.args[2] > rd[last_call'.args[1]].fed]_vars

\* ------------------------------------------- highlighting and extraction
\* the characters of the dump's cells that is_selected reports
HighlightedChars(rows) ==
    {rows[r][c] : <<r, c>> \in
        {rc \in (1..Len(rows)) \X (1..MaxRowLen) :
            /\ rc[2] <= Len(rows[rc[1]])
            /\ is_selected(m_is_selecting, m_selection,
                           IntToUint(rc[2] - 1), IntToUint(rc[1] - 1))}}

\* a cell of the grid
InGrid(cell) ==
    /\ ULess(cell.col, IntToUint(m_cols))
    /\ ULess(cell.line, IntToUint(m_lines))

\* the characters of a text, the newlines between rows left out
CharsOf(text) == {text[i] : i \in 1..Len(text)} \ {Newline}

C29_ExtractionOrderIndependent ==
    (/\ last_call.op = "get_selected_text"
     /\ Dragging
     /\ InGrid(StartCell)
     /\ InGrid(EndCell)
     /\ m_selection.start_line # m_selection.end_line
     /\ LineInside(m_selection.start_line, Len(DumpOf(last_call)))
     /\ LineInside(m_selection.end_line, Len(DumpOf(last_call)))) =>
        LET pA == CHOOSE p \in MousePoints :
                      px2pos(p, m_char_width, m_char_height) = StartCell
            pB == CHOOSE p \in MousePoints :
                      px2pos(p, m_char_width, m_char_height) = EndCell
            reversed == MoveSelection(
                            PressSelection(pB, m_char_width, m_char_height),
                            pA, m_char_width, m_char_height)
        IN  last_call.ret =
                get_selected_text(dump_screen(last_call.args[1]), reversed)

====
